---- MODULE Spec2Model ----
(***************************************************************************)
(* RestoPOS backend (src/backend/server.py): the document store's          *)
(* collections, the HTTP handlers that read and write them, and the        *)
(* events the handlers publish.  The handlers are coroutines of one event  *)
(* loop.  In the first specifications a handler is one action: it runs to  *)
(* completion before the next one starts.  In the last ones a handler is   *)
(* one action per await, and requests in flight interleave at the awaits.  *)
(***************************************************************************)
EXTENDS Integers, Sequences, FiniteSets, TLC

VARIABLES
    tables,                  \* db.tables: documents in insertion order; _id = position
    orders,                  \* db.orders: _id -> document
    nextOrderId,             \* the next _id insert_one gives an order
    kot_batches,             \* db.kot_batches: documents in insertion order
    menu_items,              \* db.menu_items: _id -> document
    inventory,               \* db.inventory: _id -> document
    inventory_transactions,  \* db.inventory_transactions: documents in insertion order
    response,                \* what the last handler returned: [op, code, body]
    emitted,                 \* the events the last handler published, in order
    issued,                  \* history: the token of every takeout order created, in
                             \* order: [token, generated], generated = by create_order
    employees,               \* db.employees: documents in insertion order
    pc,                      \* per request in flight: the await its handler is at
    loc                      \* per request in flight: the handler's local variables

vars == <<tables, orders, nextOrderId, kot_batches, menu_items, inventory,
          inventory_transactions, response, emitted, issued, employees, pc, loc>>

----------------------------------------------------------------------------
(* Bounds of the model *)

MaxOrders == 2        \* orders ever inserted
MaxKots == 2          \* KOTs ever inserted
MaxTxns == 2          \* adjust_inventory runs while the log is shorter than this
MaxEmployees == 4     \* employees ever stored

(* Program constants *)

NumDefaultTables == 20
DefaultCapacity == 4
ListLimit == 100
ReportLimit == 10000
KotLimit == 1000
TxnLimit == 50

\* Python's None in an Optional[int] / Optional[str] field
NULL == 0 - 1

\* an order id string that bson.ObjectId() rejects (InvalidId)
BadOrderId == 0
\* a menu / inventory id string that bson.ObjectId() rejects
BadId == "bad"

\* ObjectId(x) succeeds
ValidOrderId(x) == x # BadOrderId
ValidId(x) == x # BadId

\* Python truthiness of an Optional[int]: None and 0 are falsy
Truthy(n) == n # NULL /\ n # 0

\* the detail str(e) of the HTTPException raised at server.py:276
NotFoundDetail == "404: Order not found"

----------------------------------------------------------------------------
(* Documents *)

\* class Table, as the seeding list comprehension builds it
DefaultTable(i) ==
    [tableNumber |-> i, capacity |-> DefaultCapacity,
     status |-> "available", currentOrder |-> NULL]

\* range(1, 20) in place of range(1, 21)
default_tables_OffByOne == [i \in 1..(NumDefaultTables - 1) |-> DefaultTable(i)]

default_tables == [i \in 1..NumDefaultTables |-> DefaultTable(i)]

\* class Order with the defaults of its optional fields
Order(orderType, tableNumber, tokenNumber, items) ==
    [orderType |-> orderType, tableNumber |-> tableNumber,
     tokenNumber |-> tokenNumber, items |-> items, status |-> "pending",
     total |-> 0, paymentStatus |-> "unpaid", kotSent |-> FALSE]

\* class OrderItem
OrderItem(menuItemId, quantity) == [menuItemId |-> menuItemId, quantity |-> quantity]

\* class KOTBatch
KOTBatch(orderId, orderType, tableNumber, tokenNumber, items, status) ==
    [orderId |-> orderId, orderType |-> orderType, tableNumber |-> tableNumber,
     tokenNumber |-> tokenNumber, items |-> items, status |-> status]

\* serialize_doc of a stored document: the document with its _id
WithId(doc, id) == doc @@ [id |-> id]

\* the except clause of every handler: HTTPException(500, detail=str(e))
Internal(op, detail) == [op |-> op, code |-> 500, body |-> detail]
Ok(op, body) == [op |-> op, code |-> 200, body |-> body]

Event(name, room, payload) == [event |-> name, room |-> room, payload |-> payload]

\* the event sent to the orders room instead
broadcast_kot_update_Orders(kot) == Event("kot_updated", "orders", kot)

\* sio.emit('kot_updated', serialize_doc(kot), room='kitchen')
broadcast_kot_update(kot) == Event("kot_updated", "kitchen", kot)

\* sio.emit('table_updated', serialize_doc(table), room='orders')
broadcast_table_update(table) == Event("table_updated", "orders", table)

\* the event sent to the kitchen room instead
broadcast_order_update_Kitchen(order) == Event("order_updated", "kitchen", order)

\* sio.emit('order_updated', serialize_doc(order), room='orders')
broadcast_order_update(order) == Event("order_updated", "orders", order)

----------------------------------------------------------------------------
(* Store operations *)

\* cursor.to_list(n)
to_list(docs, n) == IF Len(docs) <= n THEN docs ELSE SubSeq(docs, 1, n)

\* the document update_one({"tableNumber": n}) matches: the first in the
\* collection's order, 0 when none
MatchTable(tbls, n) ==
    LET hits == {i \in DOMAIN tbls : tbls[i].tableNumber = n}
    IN  IF hits = {} THEN 0 ELSE CHOOSE i \in hits : \A j \in hits : i <= j

\* the update with the filter {"tableNumber": n, "status": "available"}
SetTable_IfAvailable(tbls, n, status, currentOrder) ==
    LET hits == {i \in DOMAIN tbls : tbls[i].tableNumber = n
                                     /\ tbls[i].status = "available"}
    IN  IF hits = {} THEN tbls
        ELSE LET i == CHOOSE h \in hits : \A j \in hits : h <= j
             IN  [tbls EXCEPT ![i].status = status, ![i].currentOrder = currentOrder]

\* the $set without currentOrder
SetTable_StatusOnly(tbls, n, status, currentOrder) ==
    LET i == MatchTable(tbls, n)
    IN  IF i = 0 THEN tbls ELSE [tbls EXCEPT ![i].status = status]

\* update_one({"tableNumber": n}, {"$set": {status, currentOrder}})
SetTable(tbls, n, status, currentOrder) ==
    LET i == MatchTable(tbls, n)
    IN  IF i = 0 THEN tbls
        ELSE [tbls EXCEPT ![i].status = status, ![i].currentOrder = currentOrder]

\* an insert under a unique index on the takeout token, retried with the
\* next free token
insert_one_UniqueToken(ords, id, doc) ==
    LET used == {ords[i].tokenNumber : i \in {j \in DOMAIN ords :
                                                ords[j].orderType = "takeout"}}
        free == CHOOSE t \in 1..(Cardinality(used) + 1) : t \notin used
    IN  ords @@ (id :> IF doc.orderType = "takeout" /\ doc.tokenNumber \in used
                       THEN [doc EXCEPT !.tokenNumber = free] ELSE doc)

\* db.orders.insert_one(order_dict): the document as given, under a new id
insert_one(ords, id, doc) == ords @@ (id :> doc)

\* find_one({"orderType": "takeout"}, sort=[("tokenNumber", -1)]).tokenNumber:
\* [found, token]; a null tokenNumber sorts below every number
last_order(ords) ==
    LET takeout == {i \in DOMAIN ords : ords[i].orderType = "takeout"}
        nums == {ords[i].tokenNumber : i \in {j \in takeout : ords[j].tokenNumber # NULL}}
    IN  IF takeout = {} THEN [found |-> FALSE, token |-> NULL]
        ELSE IF nums = {} THEN [found |-> TRUE, token |-> NULL]
        ELSE [found |-> TRUE, token |-> CHOOSE t \in nums : \A u \in nums : u <= t]

\* (last_order.get('tokenNumber', 0) + 1) if last_order else 1: the key is
\* always stored, so a null tokenNumber makes None + 1 raise TypeError
NextToken(ords) ==
    LET last == last_order(ords)
    IN  IF ~last.found THEN [ok |-> TRUE, token |-> 1]
        ELSE IF last.token = NULL THEN [ok |-> FALSE, token |-> NULL]
        ELSE [ok |-> TRUE, token |-> last.token + 1]

\* the update with a filter on the order's status
MarkKotSent_OnlyPending(ords, orderId) ==
    IF orderId \in DOMAIN ords /\ ords[orderId].status = "pending"
    THEN [ords EXCEPT ![orderId].kotSent = TRUE, ![orderId].status = "preparing"]
    ELSE ords

\* update_one({"_id": orderId}, {"$set": {"kotSent": True, "status": "preparing"}})
MarkKotSent(ords, orderId) ==
    IF orderId \in DOMAIN ords
    THEN [ords EXCEPT ![orderId].kotSent = TRUE, ![orderId].status = "preparing"]
    ELSE ords

\* the increment with the stock kept at zero or above
IncStock_Floor(inv, id, delta) ==
    IF id \in DOMAIN inv
    THEN [inv EXCEPT ![id].stock = IF @ + delta < 0 THEN 0 ELSE @ + delta]
    ELSE inv

\* update_one({"_id": id}, {"$inc": {"stock": delta}}): no document, no change
IncStock(inv, id, delta) ==
    IF id \in DOMAIN inv THEN [inv EXCEPT ![id].stock = @ + delta] ELSE inv

\* the ingredient's quantity without the order item's
DeductAmount_PerItem(ingredient, item) == ingredient.quantity

\* ingredient['quantity'] * item.quantity
DeductAmount(ingredient, item) == ingredient.quantity * item.quantity

\* the transaction document create_order logs
DeductTxn(ingredientId, quantity, oid) ==
    [inventoryId |-> ingredientId, type |-> "deduct", quantity |-> quantity,
     orderId |-> oid]

\* the transaction document adjust_inventory logs (it stores no orderId)
AdjustTxn(item_id, type, quantity) ==
    [inventoryId |-> item_id, type |-> type, quantity |-> quantity,
     orderId |-> NULL]

\* an insert that takes the place of the last transaction
insert_txn_Replace(txns, doc) ==
    IF txns = <<>> THEN <<doc>> ELSE [txns EXCEPT ![Len(txns)] = doc]

\* db.inventory_transactions.insert_one(doc)
insert_txn(txns, doc) == Append(txns, doc)

\* an exception undone: the inventory and the log as the request found them
Raise_Undone(st) ==
    [inv |-> inventory, txns |-> inventory_transactions, ok |-> FALSE]

\* a statement of the loop raises: `except Exception` answers 500 and what
\* the loop has written so far stays written
Raise(st) == [st EXCEPT !.ok = FALSE]

\* the inner loop of create_order over one menu item's ingredients;
\* st = [inv, txns, ok], ok = FALSE once a statement has raised
RECURSIVE DeductIngredients(_, _, _, _)
DeductIngredients(ings, item, oid, st) ==
    IF ings = <<>> \/ ~st.ok THEN st
    ELSE LET g == Head(ings)
         IN  IF ~ValidId(g.ingredientId) THEN Raise(st)
             ELSE DeductIngredients(Tail(ings), item, oid,
                    [st EXCEPT
                       !.inv = IncStock(@, g.ingredientId, 0 - DeductAmount(g, item)),
                       !.txns = insert_txn(@, DeductTxn(g.ingredientId,
                                                        DeductAmount(g, item), oid))])

\* the outer loop of create_order over the order's items
RECURSIVE DeductItems(_, _, _, _)
DeductItems(items, menu, oid, st) ==
    IF items = <<>> \/ ~st.ok THEN st
    ELSE LET item == Head(items)
         IN  IF ~ValidId(item.menuItemId) THEN Raise(st)
             ELSE DeductItems(Tail(items), menu, oid,
                    IF item.menuItemId \in DOMAIN menu
                       /\ menu[item.menuItemId].ingredients # <<>>
                    THEN DeductIngredients(menu[item.menuItemId].ingredients,
                                           item, oid, st)
                    ELSE st)

----------------------------------------------------------------------------
(* Handlers *)

\* GET /tables
get_tables ==
    /\ tables' = IF to_list(tables, ListLimit) = <<>>
                 THEN tables \o default_tables ELSE tables
    /\ response' = Ok("get_tables", to_list(tables', ListLimit))
    /\ emitted' = <<>>
    /\ UNCHANGED <<orders, nextOrderId, kot_batches, menu_items, inventory,
                   inventory_transactions, issued>>
    /\ UNCHANGED <<employees, pc, loc>>

\* PUT /tables/{table_id}; a table's _id is its position, 0 is no ObjectId
update_table(table_id, table) ==
    /\ IF table_id = 0
       THEN /\ response' = Internal("update_table", "InvalidId")
            /\ emitted' = <<>>
            /\ UNCHANGED tables
       ELSE /\ tables' = IF table_id \in DOMAIN tables
                         THEN [tables EXCEPT ![table_id] = table] ELSE tables
            /\ emitted' = <<broadcast_table_update(WithId(table, table_id))>>
            /\ response' = Ok("update_table", WithId(table, table_id))
    /\ UNCHANGED <<orders, nextOrderId, kot_batches, menu_items, inventory,
                   inventory_transactions, issued>>
    /\ UNCHANGED <<employees, pc, loc>>

\* the test `order.tokenNumber is None` in place of `not order.tokenNumber`
GeneratesToken_NullOnly(order) == order.orderType = "takeout" /\ order.tokenNumber = NULL

\* whether create_order generates the token
GeneratesToken(order) == order.orderType = "takeout" /\ ~Truthy(order.tokenNumber)

\* whether create_order updates a table
UpdatesTable(order) == order.orderType = "dine-in" /\ Truthy(order.tableNumber)

\* POST /orders
create_order(order) ==
    /\ nextOrderId <= MaxOrders
    /\ LET gen == GeneratesToken(order)
           nt == NextToken(orders)
           oid == nextOrderId
           order_dict == IF gen THEN [order EXCEPT !.tokenNumber = nt.token] ELSE order
           d == DeductItems(order.items, menu_items, oid,
                            [inv |-> inventory, txns |-> inventory_transactions,
                             ok |-> TRUE])
       IN  IF gen /\ ~nt.ok
           THEN /\ response' = Internal("create_order", "TypeError")
                /\ emitted' = <<>>
                /\ UNCHANGED <<tables, orders, nextOrderId, inventory,
                               inventory_transactions, issued>>
           ELSE /\ orders' = insert_one(orders, oid, order_dict)
                /\ nextOrderId' = nextOrderId + 1
                /\ issued' = IF order.orderType = "takeout"
                             THEN Append(issued, [token |-> order_dict.tokenNumber,
                                                  generated |-> gen])
                             ELSE issued
                /\ tables' = IF UpdatesTable(order)
                             THEN SetTable(tables, order.tableNumber, "occupied", oid)
                             ELSE tables
                /\ inventory' = d.inv
                /\ inventory_transactions' = d.txns
                /\ IF d.ok
                   THEN /\ emitted' = <<broadcast_order_update(WithId(order_dict, oid))>>
                        /\ response' = Ok("create_order", WithId(order_dict, oid))
                   ELSE /\ emitted' = <<>>
                        /\ response' = Internal("create_order", "InvalidId")
    /\ UNCHANGED <<kot_batches, menu_items>>
    /\ UNCHANGED <<employees, pc, loc>>

\* GET /orders/{order_id}: the HTTPException(404) is raised inside the try
\* block, and `except Exception` turns it into HTTPException(500)
get_order(order_id) ==
    /\ response' = IF ~ValidOrderId(order_id) THEN Internal("get_order", "InvalidId")
                   ELSE IF order_id \notin DOMAIN orders
                   THEN Internal("get_order", NotFoundDetail)
                   ELSE Ok("get_order", WithId(orders[order_id], order_id))
    /\ emitted' = <<>>
    /\ UNCHANGED <<tables, orders, nextOrderId, kot_batches, menu_items, inventory,
                   inventory_transactions, issued>>
    /\ UNCHANGED <<employees, pc, loc>>

\* the handler with the table of a settled dine-in order released
update_order_FreesTable(order_id, order) ==
    /\ IF ~ValidOrderId(order_id)
       THEN /\ response' = Internal("update_order", "InvalidId")
            /\ emitted' = <<>>
            /\ UNCHANGED <<orders, tables>>
       ELSE /\ orders' = IF order_id \in DOMAIN orders
                         THEN [orders EXCEPT ![order_id] = order] ELSE orders
            /\ tables' = IF /\ order.orderType = "dine-in"
                            /\ \/ order.status \in {"completed", "cancelled"}
                               \/ order.paymentStatus = "paid"
                         THEN SetTable(tables, order.tableNumber, "available", NULL)
                         ELSE tables
            /\ emitted' = <<broadcast_order_update(WithId(order, order_id))>>
            /\ response' = Ok("update_order", WithId(order, order_id))
    /\ UNCHANGED <<nextOrderId, kot_batches, menu_items, inventory,
                   inventory_transactions, issued>>
    /\ UNCHANGED <<employees, pc, loc>>

\* PUT /orders/{order_id}
update_order(order_id, order) ==
    /\ IF ~ValidOrderId(order_id)
       THEN /\ response' = Internal("update_order", "InvalidId")
            /\ emitted' = <<>>
            /\ UNCHANGED orders
       ELSE /\ orders' = IF order_id \in DOMAIN orders
                         THEN [orders EXCEPT ![order_id] = order] ELSE orders
            /\ emitted' = <<broadcast_order_update(WithId(order, order_id))>>
            /\ response' = Ok("update_order", WithId(order, order_id))
    /\ UNCHANGED <<tables, nextOrderId, kot_batches, menu_items, inventory,
                   inventory_transactions, issued>>
    /\ UNCHANGED <<employees, pc, loc>>

\* the test with the table's live currentOrder compared as well
FreesTable_IfCurrent(ords, order_id) ==
    /\ order_id \in DOMAIN ords /\ ords[order_id].orderType = "dine-in"
    /\ MatchTable(tables, ords[order_id].tableNumber) # 0
    /\ tables[MatchTable(tables, ords[order_id].tableNumber)].currentOrder = order_id

\* the test with the order type misspelt
FreesTable_Misspelt(ords, order_id) ==
    order_id \in DOMAIN ords /\ ords[order_id].orderType = "dine_in"

\* if order and order.get('orderType') == 'dine-in'
FreesTable(ords, order_id) ==
    order_id \in DOMAIN ords /\ ords[order_id].orderType = "dine-in"

\* DELETE /orders/{order_id}
delete_order(order_id) ==
    /\ IF ~ValidOrderId(order_id)
       THEN /\ response' = Internal("delete_order", "InvalidId")
            /\ emitted' = <<>>
            /\ UNCHANGED <<tables, orders>>
       ELSE /\ tables' = IF FreesTable(orders, order_id)
                         THEN SetTable(tables, orders[order_id].tableNumber,
                                       "available", NULL)
                         ELSE tables
            /\ orders' = [i \in DOMAIN orders \ {order_id} |-> orders[i]]
            /\ emitted' = <<Event("order_deleted", "orders", order_id)>>
            /\ response' = Ok("delete_order", "success")
    /\ UNCHANGED <<nextOrderId, kot_batches, menu_items, inventory,
                   inventory_transactions, issued>>
    /\ UNCHANGED <<employees, pc, loc>>

\* createdAt: datetime = Field(default_factory=datetime.utcnow): the body
\* with its arrival time; of the times only the order matters, and the
\* stored KOTs carry the ranks 1..n of theirs
Stamped(kot, rank) == kot @@ [createdAt |-> rank]

\* the ranks after the KOT at position kot_id is given the latest time
Restamp(kots, kot_id, kot) ==
    [k \in DOMAIN kots |->
       IF k = kot_id THEN Stamped(kot, Len(kots))
       ELSE IF kots[k].createdAt > kots[kot_id].createdAt
       THEN [kots[k] EXCEPT !.createdAt = @ - 1] ELSE kots[k]]

\* find(query).sort("createdAt", -1): latest first, each with its _id
sort_createdAt_desc(docs) ==
    [k \in 1..Len(docs) |->
       LET i == CHOOSE j \in DOMAIN docs : docs[j].createdAt = Len(docs) + 1 - k
       IN  WithId(docs[i], i)]

\* query = {}; if status: query['status'] = status
MatchesStatus(kot, status) == status = "" \/ kot.status = status

\* GET /kot
get_kot_batches(status) ==
    /\ LET Hit(kot) == MatchesStatus(kot, status)
       IN  response' = Ok("get_kot_batches",
                          to_list(SelectSeq(sort_createdAt_desc(kot_batches), Hit),
                                  KotLimit))
    /\ emitted' = <<>>
    /\ UNCHANGED <<tables, orders, nextOrderId, kot_batches, menu_items, inventory,
                   inventory_transactions, issued, employees, pc, loc>>

\* PUT /kot/{kot_id}; a KOT's _id is its position, 0 is no ObjectId
update_kot(kot_id, kot) ==
    /\ IF ~ValidOrderId(kot_id)
       THEN /\ response' = Internal("update_kot", "InvalidId")
            /\ emitted' = <<>>
            /\ UNCHANGED kot_batches
       ELSE /\ kot_batches' = IF kot_id \in DOMAIN kot_batches
                              THEN Restamp(kot_batches, kot_id, kot) ELSE kot_batches
            /\ emitted' = <<broadcast_kot_update(WithId(kot, kot_id))>>
            /\ response' = Ok("update_kot", WithId(kot, kot_id))
    /\ UNCHANGED <<tables, orders, nextOrderId, menu_items, inventory,
                   inventory_transactions, issued, employees, pc, loc>>

\* POST /kot: the KOT is inserted before ObjectId(kot.orderId) is evaluated
create_kot(kot) ==
    /\ Len(kot_batches) < MaxKots
    /\ kot_batches' = Append(kot_batches, Stamped(kot, Len(kot_batches) + 1))
    /\ IF ~ValidOrderId(kot.orderId)
       THEN /\ response' = Internal("create_kot", "InvalidId")
            /\ emitted' = <<>>
            /\ UNCHANGED orders
       ELSE /\ orders' = MarkKotSent(orders, kot.orderId)
            /\ emitted' = <<broadcast_kot_update(
                               WithId(kot_batches'[Len(kot_batches')],
                                      Len(kot_batches')))>>
            /\ response' = Ok("create_kot",
                              WithId(kot_batches'[Len(kot_batches')],
                                     Len(kot_batches')))
    /\ UNCHANGED <<tables, nextOrderId, menu_items, inventory,
                   inventory_transactions, issued>>
    /\ UNCHANGED <<employees, pc, loc>>

\* the multiplier with 'adjustment' left out of the list
multiplier_RefillOnly(adjustment_type) ==
    IF adjustment_type = "refill" THEN 1 ELSE 0 - 1

\* multiplier = 1 if adjustment_type in ['refill', 'adjustment'] else -1
multiplier(adjustment_type) ==
    IF adjustment_type \in {"refill", "adjustment"} THEN 1 ELSE 0 - 1

\* POST /inventory/{item_id}/adjust
adjust_inventory(item_id, adjustment_type, quantity) ==
    /\ Len(inventory_transactions) < MaxTxns
    /\ IF ~ValidId(item_id)
       THEN /\ response' = Internal("adjust_inventory", "InvalidId")
            /\ UNCHANGED <<inventory, inventory_transactions>>
       ELSE /\ inventory' = IncStock(inventory, item_id,
                                     quantity * multiplier(adjustment_type))
            /\ inventory_transactions' =
                 insert_txn(inventory_transactions,
                            AdjustTxn(item_id, adjustment_type, quantity))
            /\ response' = Ok("adjust_inventory",
                              IF item_id \in DOMAIN inventory'
                              THEN WithId(inventory'[item_id], item_id) ELSE NULL)
    /\ emitted' = <<>>
    /\ UNCHANGED <<tables, orders, nextOrderId, kot_batches, menu_items, issued>>
    /\ UNCHANGED <<employees, pc, loc>>

\* the sequence backwards: sort("createdAt", -1) of documents stamped at
\* their insert
RECURSIVE Reverse(_)
Reverse(q) == IF q = <<>> THEN <<>> ELSE Append(Reverse(Tail(q)), Head(q))

\* GET /inventory/{item_id}/transactions with the default limit: item_id is
\* compared as a string, no ObjectId is built from it
get_inventory_transactions(item_id) ==
    /\ LET Hit(t) == t.inventoryId = item_id
       IN  response' = Ok("get_inventory_transactions",
                          to_list(Reverse(SelectSeq(inventory_transactions, Hit)),
                                  TxnLimit))
    /\ emitted' = <<>>
    /\ UNCHANGED <<tables, orders, nextOrderId, kot_batches, menu_items, inventory,
                   inventory_transactions, issued, employees, pc, loc>>

\* item_dict['lowStock'] = item_dict['stock'] <= item_dict.get('minThreshold', 0)
InventoryDoc(stock, minThreshold) ==
    [stock |-> stock, minThreshold |-> minThreshold, lowStock |-> stock <= minThreshold]

\* the loop of get_inventory: an item at or under its threshold is flagged,
\* in the store and in the answer; any other item is left as it was read
FlagLowStock(inv) ==
    [i \in DOMAIN inv |->
       IF inv[i].stock <= inv[i].minThreshold
       THEN [inv[i] EXCEPT !.lowStock = TRUE] ELSE inv[i]]

\* GET /inventory
get_inventory ==
    /\ inventory' = FlagLowStock(inventory)
    /\ response' = Ok("get_inventory", FlagLowStock(inventory))
    /\ emitted' = <<>>
    /\ UNCHANGED <<tables, orders, nextOrderId, kot_batches, menu_items,
                   inventory_transactions, issued, employees, pc, loc>>

\* the ObjectIds insert_one can give a new inventory document
InventoryIds == {"i1", "i2", "i3"}

\* POST /inventory
create_inventory_item(stock, minThreshold) ==
    /\ \E id \in InventoryIds \ DOMAIN inventory :
         /\ inventory' = inventory @@ (id :> InventoryDoc(stock, minThreshold))
         /\ response' = Ok("create_inventory_item",
                           WithId(InventoryDoc(stock, minThreshold), id))
    /\ emitted' = <<>>
    /\ UNCHANGED <<tables, orders, nextOrderId, kot_batches, menu_items,
                   inventory_transactions, issued, employees, pc, loc>>

\* PUT /inventory/{item_id}
update_inventory_item(item_id, stock, minThreshold) ==
    /\ IF ~ValidId(item_id)
       THEN /\ response' = Internal("update_inventory_item", "InvalidId")
            /\ UNCHANGED inventory
       ELSE /\ inventory' = IF item_id \in DOMAIN inventory
                            THEN [inventory EXCEPT
                                    ![item_id] = InventoryDoc(stock, minThreshold)]
                            ELSE inventory
            /\ response' = Ok("update_inventory_item",
                              WithId(InventoryDoc(stock, minThreshold), item_id))
    /\ emitted' = <<>>
    /\ UNCHANGED <<tables, orders, nextOrderId, kot_batches, menu_items,
                   inventory_transactions, issued, employees, pc, loc>>

\* the query with the payment status left out
IsPaid_Any(order) == TRUE

\* query = {"paymentStatus": "paid"}
IsPaid(order) == order.paymentStatus = "paid"

\* db.orders.find(query): the matching documents, in insertion order
RECURSIVE find_paid(_, _)
find_paid(ords, from) ==
    IF from >= nextOrderId THEN <<>>
    ELSE (IF from \in DOMAIN ords /\ IsPaid(ords[from])
          THEN <<WithId(ords[from], from)>> ELSE <<>>) \o find_paid(ords, from + 1)

\* sum(order.get('total', 0) for order in orders)
RECURSIVE sum_total(_)
sum_total(docs) == IF docs = <<>> THEN 0 ELSE Head(docs).total + sum_total(Tail(docs))

RECURSIVE GCD(_, _)
GCD(a, b) == IF b = 0 THEN a ELSE GCD(b, a % b)

\* a / b, b > 0: the quotient as a fraction in lowest terms
TrueDiv(a, b) == <<a \div GCD(a, b), b \div GCD(a, b)>>

\* the number 0 as a quotient
Zero == <<0, 1>>

\* total_sales / total_orders if total_orders > 0 else 0
averageOrderValue(total_sales, total_orders) ==
    IF total_orders > 0 THEN TrueDiv(total_sales, total_orders) ELSE Zero

\* the category loop evaluates ObjectId(item['menuItemId']) for every item of
\* every order found
BreakdownRaises(docs) ==
    \E k \in DOMAIN docs : \E j \in DOMAIN docs[k].items :
        ~ValidId(docs[k].items[j].menuItemId)

\* GET /reports/sales without a date range; of the answer, the totals and
\* the order list
get_sales_report ==
    /\ LET found == to_list(find_paid(orders, 1), ReportLimit)
           total_sales == sum_total(found)
           total_orders == Len(found)
       IN  response' =
             IF BreakdownRaises(found) THEN Internal("get_sales_report", "InvalidId")
             ELSE Ok("get_sales_report",
                     [totalSales |-> total_sales,
                      totalOrders |-> total_orders,
                      averageOrderValue |-> averageOrderValue(total_sales, total_orders),
                      orders |-> to_list(found, ListLimit)])
    /\ emitted' = <<>>
    /\ UNCHANGED <<tables, orders, nextOrderId, kot_batches, menu_items, inventory,
                   inventory_transactions, issued, employees, pc, loc>>

\* POST /employees
create_employee(employee) ==
    /\ Len(employees) < MaxEmployees
    /\ employees' = Append(employees, employee)
    /\ response' = Ok("create_employee", WithId(employee, Len(employees')))
    /\ emitted' = <<>>
    /\ UNCHANGED <<tables, orders, nextOrderId, kot_batches, menu_items, inventory,
                   inventory_transactions, issued, pc, loc>>

\* db.employees.find_one({"pin": pin}): the position of the first match, or 0
find_one_pin(emps, pin) ==
    IF \E i \in DOMAIN emps : emps[i].pin = pin
    THEN CHOOSE i \in DOMAIN emps :
           emps[i].pin = pin /\ \A j \in 1..(i - 1) : emps[j].pin # pin
    ELSE 0

\* the HTTPException(401) caught by `except Exception`, as in get_order
InvalidPin_Swallowed == Internal("login", "401: Invalid PIN")

\* raise HTTPException(status_code=401, detail="Invalid PIN"), which
\* `except HTTPException: raise` lets through
InvalidPin == [op |-> "login", code |-> 401, body |-> "Invalid PIN"]

\* POST /auth/login
login(pin) ==
    /\ LET employee == find_one_pin(employees, pin)
       IN  response' = IF employee = 0 THEN InvalidPin
                       ELSE Ok("login", WithId(employees[employee], employee))
    /\ emitted' = <<>>
    /\ UNCHANGED <<tables, orders, nextOrderId, kot_batches, menu_items, inventory,
                   inventory_transactions, issued, employees, pc, loc>>

----------------------------------------------------------------------------
(* Initial state and request bodies *)

\* menu items as create_menu_item stores them: m1 needs 2 of i1; m2 needs
\* 1 of i1 and 3 of i2; m3 needs nothing; m4 needs 1 of i2 and names a
\* second ingredient by an id that is no ObjectId
InitMenu ==
    [m \in {"m1", "m2", "m3", "m4"} |->
       [ingredients |->
          CASE m = "m1" -> <<[ingredientId |-> "i1", quantity |-> 2]>>
            [] m = "m2" -> <<[ingredientId |-> "i1", quantity |-> 1],
                             [ingredientId |-> "i2", quantity |-> 3]>>
            [] m = "m4" -> <<[ingredientId |-> "i2", quantity |-> 1],
                             [ingredientId |-> BadId, quantity |-> 1]>>
            [] OTHER -> <<>>]]

\* the inventory as create_inventory_item stored it
InitInventory == [i \in {"i1", "i2"} |-> InventoryDoc(IF i = "i1" THEN 1 ELSE 4, 1)]

\* class Employee
Employee(name, pin) == [name |-> name, pin |-> pin]

InitEmployees == <<Employee("asha", "1234")>>

\* the requests that can be in flight together
Requests == {1, 2}

\* a request not in flight has no locals
NoLocals == [op |-> "none"]

\* the store with a menu, an inventory and an employee, before the first
\* GET /tables, and no request in flight
Init ==
    /\ tables = <<>>
    /\ orders = <<>>
    /\ nextOrderId = 1
    /\ kot_batches = <<>>
    /\ menu_items = InitMenu
    /\ inventory = InitInventory
    /\ inventory_transactions = <<>>
    /\ response = Ok("start", NULL)
    /\ emitted = <<>>
    /\ issued = <<>>
    /\ employees = InitEmployees
    /\ pc = [p \in Requests |-> "idle"]
    /\ loc = [p \in Requests |-> NoLocals]

\* order ids a request may name: malformed, and every id the store may give
OrderIdInputs == 0..MaxOrders

----------------------------------------------------------------------------
(* Tables and dine-in orders: GET /tables, PUT /tables/{id}, POST /orders,  *)
(* DELETE /orders/{id}                                                      *)

\* table ids a request may name: malformed, the first table, the second
TableIdInputs == {0, 1, 2}

TableInputs ==
    {[tableNumber |-> n, capacity |-> DefaultCapacity,
      status |-> x[1], currentOrder |-> x[2]] :
        n \in {1, 2},
        x \in {<<"available", NULL>>, <<"occupied", NULL>>, <<"available", 1>>}}

TableOrderInputs ==
    {Order("dine-in", 1, NULL, <<>>),
     Order("dine-in", 2, NULL, <<>>),
     Order("dine-in", 1, NULL, <<OrderItem(BadId, 1)>>)}

Next ==
    \/ get_tables
    \/ \E id \in TableIdInputs, t \in TableInputs : update_table(id, t)
    \/ \E o \in TableOrderInputs : create_order(o)
    \/ \E id \in OrderIdInputs : delete_order(id)

Spec == Init /\ [][Next]_vars

----------------------------------------------------------------------------
(* Properties of tables and dine-in orders, of Spec *)

\* the step inserted an order (only create_order moves nextOrderId); the
\* new order's id is nextOrderId
InsertedOrder == nextOrderId' = nextOrderId + 1

\* C1: a dine-in creation that names a table which exists and is available
\* leaves that table occupied, with currentOrder the id of the stored order.
C1_DineInOccupiesTable ==
    [][(InsertedOrder /\ orders'[nextOrderId].orderType = "dine-in")
        => LET T == MatchTable(tables, orders'[nextOrderId].tableNumber)
           IN  (T # 0 /\ tables[T].status = "available")
               => /\ tables'[T].status = "occupied"
                  /\ tables'[T].currentOrder = nextOrderId
                  /\ nextOrderId \in DOMAIN orders'
                  /\ tables'[T].tableNumber = orders'[nextOrderId].tableNumber]_vars

\* a dine-in creation has just returned 200 and its table holds the new order
C1_Witness ==
    /\ response.op = "create_order" /\ response.code = 200
    /\ response.body.orderType = "dine-in"
    /\ LET T == MatchTable(tables, response.body.tableNumber)
       IN  /\ T # 0
           /\ tables[T].status = "occupied"
           /\ tables[T].currentOrder = response.body.id

\* the step is a DELETE /orders/{id} that got past ObjectId(order_id); the
\* id it named is the payload of its order_deleted event
DeletedOrder == response'.op = "delete_order" /\ response'.code = 200

\* C5: deleting a dine-in order whose recorded table still has it as
\* currentOrder leaves that table available with currentOrder null, and the
\* order is gone from the store.
C5_DeleteFreesTable ==
    [][DeletedOrder
        => LET O == emitted'[1].payload
           IN  (O \in DOMAIN orders /\ orders[O].orderType = "dine-in")
               => LET T == MatchTable(tables, orders[O].tableNumber)
                  IN  (T # 0 /\ tables[T].currentOrder = O)
                      => /\ tables'[T].status = "available"
                         /\ tables'[T].currentOrder = NULL
                         /\ O \notin DOMAIN orders']_vars

\* an order was created on a table and deleted: the table is free again
C5_Witness ==
    /\ response.op = "delete_order" /\ response.code = 200
    /\ emitted[1].payload = 1
    /\ 1 \notin DOMAIN orders
    /\ nextOrderId = 2
    /\ tables # <<>>
    /\ tables[1].status = "available" /\ tables[1].currentOrder = NULL

\* C8: every table has currentOrder non-null iff its status is not available.
C8_CurrentOrderIffNotAvailable ==
    \A i \in DOMAIN tables :
        (tables[i].currentOrder # NULL) <=> (tables[i].status # "available")

\* C9: GET /tables on an empty collection stores and returns exactly 20
\* tables numbered 1..20, each capacity 4, available, currentOrder null; on a
\* non-empty collection it inserts nothing.
C9_SeedsTwentyTables ==
    [][response'.op = "get_tables"
        => /\ tables = <<>>
              => /\ Len(tables') = 20
                 /\ {tables'[i].tableNumber : i \in DOMAIN tables'} = 1..20
                 /\ \A i \in DOMAIN tables' :
                      /\ tables'[i].capacity = 4
                      /\ tables'[i].status = "available"
                      /\ tables'[i].currentOrder = NULL
                 /\ response'.code = 200
                 /\ response'.body = tables'
           /\ tables # <<>> => tables' = tables]_vars

\* the first GET /tables has just returned the seeded pool
C9_Witness ==
    /\ response.op = "get_tables" /\ response.code = 200
    /\ Len(response.body) = 20
    /\ tables = response.body
    /\ orders = <<>> /\ nextOrderId = 1

\* C19: delete_order frees the table by the number recorded on the deleted
\* order, whatever the table's currentOrder is: when order A is deleted while
\* the table of its number holds another stored order B of the same number,
\* the table becomes available with currentOrder null and B stays stored.
C19_DeleteFreesReassignedTable ==
    [][DeletedOrder
        => LET A == emitted'[1].payload
           IN  (A \in DOMAIN orders /\ orders[A].orderType = "dine-in")
               => LET T == MatchTable(tables, orders[A].tableNumber)
                  IN  \A B \in DOMAIN orders \ {A} :
                        (/\ T # 0
                         /\ tables[T].currentOrder = B
                         /\ orders[B].orderType = "dine-in"
                         /\ orders[B].tableNumber = orders[A].tableNumber)
                        => /\ tables'[T].status = "available"
                           /\ tables'[T].currentOrder = NULL
                           /\ B \in DOMAIN orders'
                           /\ orders'[B] = orders[B]
                           /\ orders'[B].status = "pending"]_vars

\* A then B were created on table 1 and A was deleted: the table is free
\* while B, which names it, is stored
C19_Witness ==
    /\ response.op = "delete_order" /\ response.code = 200
    /\ emitted[1].payload = 1
    /\ nextOrderId = 3
    /\ DOMAIN orders = {2}
    /\ orders[2].orderType = "dine-in" /\ orders[2].tableNumber = 1
    /\ tables # <<>>
    /\ tables[1].tableNumber = 1
    /\ tables[1].status = "available" /\ tables[1].currentOrder = NULL

----------------------------------------------------------------------------
(* Takeout tokens and order lookup: POST /orders, GET /orders/{id},         *)
(* PUT /orders/{id}, DELETE /orders/{id}                                    *)

TakeoutOrderInputs ==
    {Order("takeout", NULL, NULL, <<>>),
     Order("takeout", NULL, 0, <<>>),
     Order("dine-in", 1, NULL, <<>>)}

\* the body of a PUT that changes an order's status and payment: the stored
\* order with the new values (a fresh order when the id is not stored)
StatusUpdate(id, status) ==
    [(IF id \in DOMAIN orders THEN orders[id] ELSE Order("takeout", NULL, NULL, <<>>))
        EXCEPT !.status = status, !.paymentStatus = "paid"]

NextOrders ==
    \/ \E o \in TakeoutOrderInputs : create_order(o)
    \/ \E id \in OrderIdInputs : get_order(id)
    \/ \E id \in OrderIdInputs, st \in {"completed", "cancelled"} :
          update_order(id, StatusUpdate(id, st))
    \/ \E id \in OrderIdInputs : delete_order(id)

SpecOrders == Init /\ [][NextOrders]_vars

\* the largest of a set of tokens, 0 for none
MaxOf(S) == IF S = {} THEN 0 ELSE CHOOSE t \in S : \A u \in S : u <= t

\* C2: with handlers run one at a time, every generated token is one plus
\* the largest token previously assigned in the takeout stream (1 if none).
C2_TokenIsMaxAssignedPlusOne ==
    \A k \in DOMAIN issued :
        issued[k].generated
        => issued[k].token = 1 + MaxOf({issued[j].token : j \in 1..(k - 1)})

\* C3: a generated token is never generated again, and generated tokens
\* strictly increase in order of assignment.
C3_TokensNeverReused ==
    \A j, k \in DOMAIN issued :
        (j < k /\ issued[j].generated /\ issued[k].generated)
        => issued[j].token < issued[k].token

\* C10: GET /orders/{id} for a well-formed id that matches no stored order
\* answers 404 and changes nothing.
C10_GetOrderMissIs404 ==
    [][\A id \in OrderIdInputs :
         (get_order(id) /\ ValidOrderId(id) /\ id \notin DOMAIN orders)
         => /\ response'.code = 404
            /\ UNCHANGED <<tables, orders, kot_batches, menu_items, inventory,
                           inventory_transactions>>]_vars

----------------------------------------------------------------------------
(* Kitchen tickets: POST /orders, POST /kot                                 *)

OrderStatusInputs == {"pending", "preparing", "ready", "completed", "cancelled"}

KotOrderInputs ==
    {[Order("dine-in", 1, NULL, <<OrderItem("m3", 1)>>) EXCEPT !.status = st] :
        st \in OrderStatusInputs}

KotInputs ==
    {KOTBatch(id, "dine-in", 1, NULL, <<OrderItem("m3", 1)>>, "pending") :
        id \in OrderIdInputs}
    \cup {KOTBatch(1, "takeout", NULL, 7, <<>>, "completed")}

NextKot ==
    \/ \E o \in KotOrderInputs : create_order(o)
    \/ \E k \in KotInputs : create_kot(k)

SpecKot == Init /\ [][NextKot]_vars

\* C6: creating a KOT for a stored order sets its kotSent and makes its
\* status preparing whatever the status was, and stores the KOT as given.
C6_KotMarksOrderPreparing ==
    [][\A k \in KotInputs :
         (create_kot(k) /\ k.orderId \in DOMAIN orders)
         => /\ orders'[k.orderId].kotSent = TRUE
            /\ orders'[k.orderId].status = "preparing"
            /\ Len(kot_batches') = Len(kot_batches) + 1
            /\ LET stored == kot_batches'[Len(kot_batches')]
               IN  /\ stored.orderId = k.orderId
                   /\ stored.status = k.status
                   /\ stored.items = k.items
                   /\ stored.tableNumber = k.tableNumber
                   /\ stored.tokenNumber = k.tokenNumber]_vars

\* a KOT was created for a stored order
C6_Witness ==
    /\ response.op = "create_kot" /\ response.code = 200
    /\ response.body.orderId \in DOMAIN orders
    /\ orders[response.body.orderId].kotSent
    /\ orders[response.body.orderId].status = "preparing"
    /\ kot_batches[Len(kot_batches)].status = "completed"

----------------------------------------------------------------------------
(* Inventory: POST /orders, POST /inventory/{id}/adjust                     *)

InventoryOrderInputs ==
    {Order("dine-in", 1, NULL, items) :
        items \in {<<OrderItem("m1", 2), OrderItem("m2", 1)>>,
                   <<OrderItem("m3", 1), OrderItem("m9", 1), OrderItem("m2", 2)>>,
                   <<OrderItem("m2", 1), OrderItem(BadId, 1)>>}}

AdjustmentTypeInputs == {"refill", "adjustment", "wastage"}

QuantityInputs == {1, 2}

InventoryIdInputs == {"i1", "i9", BadId}

NextInventory ==
    \/ \E o \in InventoryOrderInputs : create_order(o)
    \/ \E id \in InventoryIdInputs, t \in AdjustmentTypeInputs, q \in QuantityInputs :
          adjust_inventory(id, t, q)

SpecInventory == Init /\ [][NextInventory]_vars

\* the ingredient entries an order's items reach: <<item position,
\* ingredient position>>
IngredientEntries(order) ==
    {e \in (DOMAIN order.items) \X (1..2) :
        /\ order.items[e[1]].menuItemId \in DOMAIN menu_items
        /\ e[2] \in DOMAIN menu_items[order.items[e[1]].menuItemId].ingredients}

EntryIngredient(order, e) == menu_items[order.items[e[1]].menuItemId].ingredients[e[2]]

\* the sum over a set of entries of ingredientQuantity * orderItemQuantity
RECURSIVE RequiredQuantity(_, _)
RequiredQuantity(order, E) ==
    IF E = {} THEN 0
    ELSE LET e == CHOOSE x \in E : TRUE
         IN  EntryIngredient(order, e).quantity * order.items[e[1]].quantity
             + RequiredQuantity(order, E \ {e})

EntriesOf(order, i) ==
    {e \in IngredientEntries(order) : EntryIngredient(order, e).ingredientId = i}

\* the positions of the transactions a step appended
Appended == (Len(inventory_transactions) + 1)..Len(inventory_transactions')

\* C4: a completed order creation lowers each referenced inventory item's
\* stock by exactly the sum of ingredientQuantity * orderItemQuantity (no
\* floor), and appends exactly one deduct transaction carrying the order id
\* per ingredient entry per order item.
C4_CreateOrderDeductsStock ==
    [][\A o \in InventoryOrderInputs :
         (create_order(o) /\ response'.code = 200)
         => /\ \A i \in DOMAIN inventory :
                 inventory'[i].stock
                   = inventory[i].stock - RequiredQuantity(o, EntriesOf(o, i))
            /\ Cardinality(Appended) = Cardinality(IngredientEntries(o))
            /\ \A p \in Appended :
                 /\ inventory_transactions'[p].type = "deduct"
                 /\ inventory_transactions'[p].orderId = response'.body.id
            /\ \A i \in DOMAIN inventory :
                 Cardinality({p \in Appended :
                                inventory_transactions'[p].inventoryId = i})
                   = Cardinality(EntriesOf(o, i))
            /\ \A e \in IngredientEntries(o) :
                 \E p \in Appended :
                    /\ inventory_transactions'[p].inventoryId
                         = EntryIngredient(o, e).ingredientId
                    /\ inventory_transactions'[p].quantity
                         = EntryIngredient(o, e).quantity * o.items[e[1]].quantity
            /\ SubSeq(inventory_transactions', 1, Len(inventory_transactions))
                 = inventory_transactions]_vars

\* an order of two m2 has completed: 2 of i1 and 6 of i2 deducted, stock of
\* i2 below zero
C4_Witness ==
    /\ response.op = "create_order" /\ response.code = 200
    /\ Len(response.body.items) = 3
    /\ nextOrderId = 2
    /\ inventory["i1"].stock = 1 - 2
    /\ inventory["i2"].stock = 4 - 6
    /\ Len(inventory_transactions) = 2

\* C7: adjusting an existing item by q adds q to its stock for refill and
\* adjustment and subtracts q for wastage, appends exactly one transaction
\* {type, quantity q} for the item, and returns the item with the new stock.
C7_AdjustMovesStockByQuantity ==
    [][\A id \in DOMAIN inventory, t \in AdjustmentTypeInputs, q \in QuantityInputs :
         adjust_inventory(id, t, q)
         => /\ t \in {"refill", "adjustment"}
                 => inventory'[id].stock = inventory[id].stock + q
            /\ t = "wastage" => inventory'[id].stock = inventory[id].stock - q
            /\ \A j \in DOMAIN inventory \ {id} : inventory'[j] = inventory[j]
            /\ Len(inventory_transactions') = Len(inventory_transactions) + 1
            /\ SubSeq(inventory_transactions', 1, Len(inventory_transactions))
                 = inventory_transactions
            /\ LET txn == inventory_transactions'[Len(inventory_transactions')]
               IN  txn.inventoryId = id /\ txn.type = t /\ txn.quantity = q
            /\ response'.code = 200
            /\ response'.body.id = id
            /\ response'.body.stock = inventory'[id].stock]_vars

\* a wastage of 2 has taken i1 from 1 to -1
C7_Witness ==
    /\ response.op = "adjust_inventory" /\ response.code = 200
    /\ inventory_transactions = <<AdjustTxn("i1", "wastage", 2)>>
    /\ inventory["i1"].stock = 1 - 2
    /\ response.body.stock = 1 - 2

\* C21: creating an order with an item whose menuItemId matches no stored
\* menu item is answered with the Internal error, not completed with that
\* item's deduction skipped.
C21_MenuItemMissIsInternal ==
    [][\A o \in InventoryOrderInputs :
         (/\ create_order(o)
          /\ \E j \in DOMAIN o.items : o.items[j].menuItemId \notin DOMAIN menu_items)
         => response'.code = 500]_vars

----------------------------------------------------------------------------
(* SpecStock: every writer of an inventory document, and the listing *)

StockInputs == {0, 2}

ThresholdInputs == {1}

StockOrderInputs == {Order("takeout", NULL, 7, <<OrderItem("m1", 1)>>)}

StockIdInputs == {"i1", BadId}

StockAdjustInputs == {"refill", "wastage"}

NextStock ==
    \/ \E st \in StockInputs, th \in ThresholdInputs : create_inventory_item(st, th)
    \/ \E id \in StockIdInputs, st \in StockInputs, th \in ThresholdInputs :
         update_inventory_item(id, st, th)
    \/ \E id \in StockIdInputs, t \in StockAdjustInputs : adjust_inventory(id, t, 1)
    \/ \E o \in StockOrderInputs : create_order(o)
    \/ get_inventory

SpecStock == Init /\ [][NextStock]_vars

\* lowStock of a document is its stock compared with its threshold
Derived(doc) == doc.lowStock = (doc.stock <= doc.minThreshold)

\* C12: after any sequence of inventory creations, updates, adjustments,
\* order deductions and listings, every item GET /inventory returns, and its
\* stored document after the listing, has lowStock = (stock <= minThreshold).
C12_LowStockIsDerived ==
    [][get_inventory =>
         /\ \A i \in DOMAIN response'.body : Derived(response'.body[i])
         /\ \A i \in DOMAIN inventory' : Derived(inventory'[i])]_vars

----------------------------------------------------------------------------
(* SpecReport: orders with totals, paid and unpaid, and the sales report *)

\* a takeout order that brings its token, its total and its payment status
ReportOrder(total, paymentStatus, items) ==
    [Order("takeout", NULL, 5, items) EXCEPT !.total = total,
                                             !.paymentStatus = paymentStatus]

ReportOrderInputs ==
    {ReportOrder(10, "unpaid", <<OrderItem("m3", 1)>>),
     ReportOrder(10, "paid", <<OrderItem("m3", 1)>>),
     ReportOrder(25, "paid", <<OrderItem("m3", 2)>>),
     ReportOrder(25, "paid", <<OrderItem(BadId, 1)>>)}

\* the PUT body that marks the stored order paid
PaymentUpdate(id) ==
    IF id \in DOMAIN orders THEN [orders[id] EXCEPT !.paymentStatus = "paid"]
    ELSE ReportOrder(10, "paid", <<>>)

NextReport ==
    \/ \E o \in ReportOrderInputs : create_order(o)
    \/ \E id \in OrderIdInputs : update_order(id, PaymentUpdate(id))
    \/ \E id \in OrderIdInputs : delete_order(id)
    \/ get_sales_report

SpecReport == Init /\ [][NextReport]_vars

\* the stored orders that are paid
PaidIds == {i \in DOMAIN orders : orders[i].paymentStatus = "paid"}

RECURSIVE SumOfTotals(_)
SumOfTotals(S) ==
    IF S = {} THEN 0
    ELSE LET i == CHOOSE j \in S : TRUE IN orders[i].total + SumOfTotals(S \ {i})

----------------------------------------------------------------------------
(* SpecAuth: employees and logins *)

EmployeeInputs ==
    {Employee("ravi", "0000"), Employee("mina", "1234"), Employee("ravi", "5555")}

PinInputs == {"1234", "0000", "5555", "9999"}

NextAuth ==
    \/ \E e \in EmployeeInputs : create_employee(e)
    \/ \E pin \in PinInputs : login(pin)

SpecAuth == Init /\ [][NextAuth]_vars

\* C14: a login with a PIN no employee has is answered 401 (not 500), a login
\* with an employee's PIN is answered with an employee that has this PIN, and
\* neither changes any stored state.
C14_LoginUnknownPinIs401 ==
    [][\A pin \in PinInputs :
         login(pin) =>
           /\ (\A i \in DOMAIN employees : employees[i].pin # pin)
                => response'.code = 401 /\ response'.code # 500
           /\ (\E i \in DOMAIN employees : employees[i].pin = pin)
                => /\ response'.code = 200
                   /\ response'.body.pin = pin
                   /\ \E i \in DOMAIN employees :
                        response'.body = WithId(employees[i], i)
           /\ UNCHANGED <<tables, orders, nextOrderId, kot_batches, menu_items,
                          inventory, inventory_transactions, employees>>]_vars

\* a login was refused while employees with other PINs were stored
C14_Witness ==
    /\ response.op = "login" /\ response.code = 401
    /\ Len(employees) > 1

----------------------------------------------------------------------------
(* SpecValidation: order bodies the Order model accepts, with and without *)
(* a table number                                                         *)

\* tableNumber: Optional[int] = None, for every order type
ValidationOrderInputs ==
    {Order("dine-in", NULL, NULL, <<OrderItem("m1", 1)>>),
     Order("dine-in", 1, NULL, <<OrderItem("m3", 1)>>),
     Order("takeout", NULL, NULL, <<OrderItem("m3", 1)>>),
     Order("takeout", 1, NULL, <<>>)}

NextValidation ==
    \/ get_tables
    \/ \E o \in ValidationOrderInputs : create_order(o)
    \/ \E id \in OrderIdInputs : delete_order(id)

SpecValidation == Init /\ [][NextValidation]_vars

\* C15: creating a dine-in order without a table number is rejected before
\* persistence: no order is stored, no table changes, no inventory is
\* deducted and no event is emitted.
C15_DineInNeedsTableNumber ==
    [][\A o \in ValidationOrderInputs :
         (create_order(o) /\ o.orderType = "dine-in" /\ o.tableNumber = NULL) =>
           /\ response'.code \notin {200, 500}
           /\ emitted' = <<>>
           /\ UNCHANGED <<orders, tables, inventory, inventory_transactions>>]_vars

----------------------------------------------------------------------------
(* SpecRollback: order creations that raise after the insert *)

RollbackOrderInputs ==
    {Order("dine-in", 1, NULL, <<OrderItem("m2", 1), OrderItem(BadId, 1)>>),
     Order("dine-in", 2, NULL, <<OrderItem("m1", 1), OrderItem("m4", 2),
                                 OrderItem("m2", 1)>>),
     Order("takeout", NULL, 3, <<OrderItem("m4", 1)>>),
     Order("dine-in", 1, NULL, <<OrderItem("m3", 1)>>)}

NextRollback ==
    \/ get_tables
    \/ \E o \in RollbackOrderInputs : create_order(o)
    \/ \E id \in OrderIdInputs : delete_order(id)

SpecRollback == Init /\ [][NextRollback]_vars

\* the places of an order where the item loop raises: <<item, 0>> for a
\* menuItemId that is no ObjectId, <<item, ingredient>> for such an
\* ingredientId
RaisingPlaces(order) ==
    {<<j, 0>> : j \in {k \in DOMAIN order.items : ~ValidId(order.items[k].menuItemId)}}
    \cup {e \in IngredientEntries(order) : ~ValidId(EntryIngredient(order, e).ingredientId)}

\* place a comes before place b in the loop
Before(a, b) == a[1] < b[1] \/ (a[1] = b[1] /\ a[2] < b[2])

\* the ingredient entries the loop has gone through when it raises
EntriesBeforeRaise(order) ==
    {e \in IngredientEntries(order) : \A r \in RaisingPlaces(order) : Before(e, r)}

\* C20: when the item loop of an order creation raises after the insert, the
\* caller is answered 500, and the order stays stored, its table occupied,
\* every decrement and deduct transaction made before the failure applied,
\* and no order_updated is emitted.
C20_NoRollbackAfterInsert ==
    [][\A o \in RollbackOrderInputs :
         (create_order(o) /\ RaisingPlaces(o) # {})
         => LET oid == nextOrderId
                done == EntriesBeforeRaise(o)
            IN  /\ response'.code = 500
                /\ emitted' = <<>>
                /\ oid \in DOMAIN orders' /\ orders'[oid] = o
                /\ (UpdatesTable(o) /\ MatchTable(tables, o.tableNumber) # 0)
                     => LET T == MatchTable(tables, o.tableNumber)
                        IN  /\ tables'[T].status = "occupied"
                            /\ tables'[T].currentOrder = oid
                /\ \A i \in DOMAIN inventory :
                     inventory'[i].stock
                       = inventory[i].stock
                         - RequiredQuantity(o, {e \in done :
                                                 EntryIngredient(o, e).ingredientId = i})
                /\ Cardinality(Appended) = Cardinality(done)
                /\ \A e \in done :
                     \E p \in Appended :
                        inventory_transactions'[p]
                          = DeductTxn(EntryIngredient(o, e).ingredientId,
                                      EntryIngredient(o, e).quantity
                                        * o.items[e[1]].quantity, oid)
                /\ SubSeq(inventory_transactions', 1, Len(inventory_transactions))
                     = inventory_transactions]_vars

\* the creation on table 2 raised at m4's second ingredient: answered 500,
\* order stored, table 2 occupied by it, 2 of i1 and 2 of i2 gone and logged
C20_Witness ==
    /\ response.op = "create_order" /\ response.code = 500
    /\ emitted = <<>>
    /\ nextOrderId = 2
    /\ 1 \in DOMAIN orders
    /\ tables # <<>>
    /\ tables[2].status = "occupied" /\ tables[2].currentOrder = 1
    /\ inventory["i1"].stock = 1 - 2
    /\ inventory["i2"].stock = 4 - 2
    /\ Len(inventory_transactions) = 2

----------------------------------------------------------------------------
(* Handlers, one action per await: a request p in flight is at pc[p] with  *)
(* the handler's locals in loc[p]; emitted holds the events of the last    *)
(* step, response the answer of the last request that ended               *)

\* request p is suspended at the await `at` with locals `locals`
Suspend(p, at, locals) ==
    /\ pc' = [pc EXCEPT ![p] = at]
    /\ loc' = [loc EXCEPT ![p] = locals]

\* request p ends
Finish(p) ==
    /\ pc' = [pc EXCEPT ![p] = "idle"]
    /\ loc' = [loc EXCEPT ![p] = NoLocals]

\* except Exception as e: raise HTTPException(status_code=500, detail=str(e))
Fail(p, op, detail) ==
    /\ Finish(p)
    /\ response' = Internal(op, detail)

\* the creations that have begun and not yet inserted their order
Uninserted == {q \in Requests : pc[q] \in {"find_last_order", "insert_order"}}

\* POST /orders arrives: order.dict(), up to the first await
create_order_begin(p, order) ==
    /\ pc[p] = "idle"
    /\ nextOrderId + Cardinality(Uninserted) <= MaxOrders
    /\ Suspend(p, IF GeneratesToken(order) THEN "find_last_order" ELSE "insert_order",
               [op |-> "create_order", order |-> order, order_dict |-> order,
                last_order |-> [found |-> FALSE, token |-> NULL],
                oid |-> NULL, tabled |-> FALSE, i |-> 1, g |-> 1])
    /\ emitted' = <<>>
    /\ UNCHANGED <<tables, orders, nextOrderId, kot_batches, menu_items, inventory,
                   inventory_transactions, response, issued, employees>>

\* last_order = await db.orders.find_one(...); order_dict['tokenNumber'] = ...
create_order_find_last_order(p) ==
    /\ pc[p] = "find_last_order"
    /\ LET nt == NextToken(orders)
       IN  IF nt.ok
           THEN /\ Suspend(p, "insert_order",
                           [loc[p] EXCEPT !.last_order = last_order(orders),
                                          !.order_dict.tokenNumber = nt.token])
                /\ UNCHANGED response
           ELSE Fail(p, "create_order", "TypeError")
    /\ emitted' = <<>>
    /\ UNCHANGED <<tables, orders, nextOrderId, kot_batches, menu_items, inventory,
                   inventory_transactions, issued, employees>>

\* where the item loop goes when it reaches item i
ItemPc(order, i) == IF i > Len(order.items) THEN "emit" ELSE "find_menu_item"

\* result = await db.orders.insert_one(order_dict)
create_order_insert_order(p) ==
    /\ pc[p] = "insert_order"
    /\ orders' = insert_one(orders, nextOrderId, loc[p].order_dict)
    /\ nextOrderId' = nextOrderId + 1
    /\ issued' = IF loc[p].order.orderType = "takeout"
                 THEN Append(issued, [token |-> loc[p].order_dict.tokenNumber,
                                      generated |-> GeneratesToken(loc[p].order)])
                 ELSE issued
    /\ Suspend(p, IF UpdatesTable(loc[p].order) THEN "update_table"
                  ELSE ItemPc(loc[p].order, 1),
               [loc[p] EXCEPT !.oid = nextOrderId])
    /\ emitted' = <<>>
    /\ UNCHANGED <<tables, kot_batches, menu_items, inventory,
                   inventory_transactions, response, employees>>

\* await db.tables.update_one({"tableNumber": ...}, {"$set": {occupied, id}})
create_order_update_table(p) ==
    /\ pc[p] = "update_table"
    /\ tables' = SetTable(tables, loc[p].order.tableNumber, "occupied", loc[p].oid)
    /\ Suspend(p, ItemPc(loc[p].order, 1), [loc[p] EXCEPT !.tabled = TRUE])
    /\ emitted' = <<>>
    /\ UNCHANGED <<orders, nextOrderId, kot_batches, menu_items, inventory,
                   inventory_transactions, response, issued, employees>>

\* menu_item = await db.menu_items.find_one({"_id": ObjectId(item.menuItemId)})
create_order_find_menu_item(p) ==
    /\ pc[p] = "find_menu_item"
    /\ LET item == loc[p].order.items[loc[p].i]
       IN  IF ~ValidId(item.menuItemId) THEN Fail(p, "create_order", "InvalidId")
           ELSE /\ IF item.menuItemId \in DOMAIN menu_items
                      /\ menu_items[item.menuItemId].ingredients # <<>>
                   THEN Suspend(p, "inc_stock", [loc[p] EXCEPT !.g = 1])
                   ELSE Suspend(p, ItemPc(loc[p].order, loc[p].i + 1),
                                [loc[p] EXCEPT !.i = @ + 1])
                /\ UNCHANGED response
    /\ emitted' = <<>>
    /\ UNCHANGED <<tables, orders, nextOrderId, kot_batches, menu_items, inventory,
                   inventory_transactions, issued, employees>>

\* the ingredient the inner loop of request p is at
Ingredient(p) ==
    menu_items[loc[p].order.items[loc[p].i].menuItemId].ingredients[loc[p].g]

\* await db.inventory.update_one({"_id": ObjectId(...)}, {"$inc": {"stock": ...}})
create_order_inc_stock(p) ==
    /\ pc[p] = "inc_stock"
    /\ IF ~ValidId(Ingredient(p).ingredientId)
       THEN /\ Fail(p, "create_order", "InvalidId")
            /\ UNCHANGED inventory
       ELSE /\ inventory' = IncStock(inventory, Ingredient(p).ingredientId,
                                     0 - DeductAmount(Ingredient(p),
                                                      loc[p].order.items[loc[p].i]))
            /\ Suspend(p, "insert_transaction", loc[p])
            /\ UNCHANGED response
    /\ emitted' = <<>>
    /\ UNCHANGED <<tables, orders, nextOrderId, kot_batches, menu_items,
                   inventory_transactions, issued, employees>>

\* await db.inventory_transactions.insert_one({... "type": "deduct" ...})
create_order_insert_transaction(p) ==
    /\ pc[p] = "insert_transaction"
    /\ inventory_transactions' =
         insert_txn(inventory_transactions,
                    DeductTxn(Ingredient(p).ingredientId,
                              DeductAmount(Ingredient(p), loc[p].order.items[loc[p].i]),
                              loc[p].oid))
    /\ LET ings == menu_items[loc[p].order.items[loc[p].i].menuItemId].ingredients
       IN  IF loc[p].g < Len(ings)
           THEN Suspend(p, "inc_stock", [loc[p] EXCEPT !.g = @ + 1])
           ELSE Suspend(p, ItemPc(loc[p].order, loc[p].i + 1),
                        [loc[p] EXCEPT !.i = @ + 1, !.g = 1])
    /\ emitted' = <<>>
    /\ UNCHANGED <<tables, orders, nextOrderId, kot_batches, menu_items, inventory,
                   response, issued, employees>>

\* await broadcast_order_update(created_order); return created_order
create_order_emit(p) ==
    /\ pc[p] = "emit"
    /\ emitted' = <<broadcast_order_update(WithId(loc[p].order_dict, loc[p].oid))>>
    /\ response' = Ok("create_order", WithId(loc[p].order_dict, loc[p].oid))
    /\ Finish(p)
    /\ UNCHANGED <<tables, orders, nextOrderId, kot_batches, menu_items, inventory,
                   inventory_transactions, issued, employees>>

\* GET /tables arrives: tables = await db.tables.find().to_list(100)
get_tables_find(p) ==
    /\ pc[p] = "idle"
    /\ IF to_list(tables, ListLimit) = <<>>
       THEN /\ Suspend(p, "insert_many", [op |-> "get_tables"])
            /\ UNCHANGED response
       ELSE /\ response' = Ok("get_tables", to_list(tables, ListLimit))
            /\ Finish(p)
    /\ emitted' = <<>>
    /\ UNCHANGED <<tables, orders, nextOrderId, kot_batches, menu_items, inventory,
                   inventory_transactions, issued, employees>>

\* await db.tables.insert_many(default_tables)
get_tables_insert_many(p) ==
    /\ pc[p] = "insert_many"
    /\ tables' = tables \o default_tables
    /\ Suspend(p, "find_again", loc[p])
    /\ emitted' = <<>>
    /\ UNCHANGED <<orders, nextOrderId, kot_batches, menu_items, inventory,
                   inventory_transactions, response, issued, employees>>

\* tables = await db.tables.find().to_list(100); return
get_tables_find_again(p) ==
    /\ pc[p] = "find_again"
    /\ response' = Ok("get_tables", to_list(tables, ListLimit))
    /\ Finish(p)
    /\ emitted' = <<>>
    /\ UNCHANGED <<tables, orders, nextOrderId, kot_batches, menu_items, inventory,
                   inventory_transactions, issued, employees>>

\* DELETE /orders/{order_id} arrives: ObjectId(order_id), up to the first await
delete_order_begin(p, order_id) ==
    /\ pc[p] = "idle"
    /\ IF ~ValidOrderId(order_id)
       THEN /\ response' = Internal("delete_order", "InvalidId")
            /\ UNCHANGED <<pc, loc>>
       ELSE /\ Suspend(p, "find_order",
                       [op |-> "delete_order", order_id |-> order_id,
                        frees |-> FALSE, tableNumber |-> NULL])
            /\ UNCHANGED response
    /\ emitted' = <<>>
    /\ UNCHANGED <<tables, orders, nextOrderId, kot_batches, menu_items, inventory,
                   inventory_transactions, issued, employees>>

\* order = await db.orders.find_one({"_id": ObjectId(order_id)})
delete_order_find_order(p) ==
    /\ pc[p] = "find_order"
    /\ IF FreesTable(orders, loc[p].order_id)
       THEN Suspend(p, "free_table",
                    [loc[p] EXCEPT !.frees = TRUE,
                                   !.tableNumber = orders[loc[p].order_id].tableNumber])
       ELSE Suspend(p, "delete_one", loc[p])
    /\ emitted' = <<>>
    /\ UNCHANGED <<tables, orders, nextOrderId, kot_batches, menu_items, inventory,
                   inventory_transactions, response, issued, employees>>

\* await db.tables.update_one({"tableNumber": ...}, {"$set": {available, None}})
delete_order_free_table(p) ==
    /\ pc[p] = "free_table"
    /\ tables' = SetTable(tables, loc[p].tableNumber, "available", NULL)
    /\ Suspend(p, "delete_one", loc[p])
    /\ emitted' = <<>>
    /\ UNCHANGED <<orders, nextOrderId, kot_batches, menu_items, inventory,
                   inventory_transactions, response, issued, employees>>

\* await db.orders.delete_one({"_id": ObjectId(order_id)})
delete_order_delete_one(p) ==
    /\ pc[p] = "delete_one"
    /\ orders' = [i \in DOMAIN orders \ {loc[p].order_id} |-> orders[i]]
    /\ Suspend(p, "emit_deleted", loc[p])
    /\ emitted' = <<>>
    /\ UNCHANGED <<tables, nextOrderId, kot_batches, menu_items, inventory,
                   inventory_transactions, response, issued, employees>>

\* await sio.emit('order_deleted', {'orderId': order_id}, room='orders'); return
delete_order_emit(p) ==
    /\ pc[p] = "emit_deleted"
    /\ emitted' = <<Event("order_deleted", "orders", loc[p].order_id)>>
    /\ response' = Ok("delete_order", "success")
    /\ Finish(p)
    /\ UNCHANGED <<tables, orders, nextOrderId, kot_batches, menu_items, inventory,
                   inventory_transactions, issued, employees>>

\* the adjustments that have begun and not yet logged their transaction
Unlogged == {q \in Requests : pc[q] \in {"adjust_stock", "log_adjustment"}}

\* POST /inventory/{item_id}/adjust arrives: data.get(...), the multiplier
\* and ObjectId(item_id), up to the first await
adjust_inventory_begin(p, item_id, adjustment_type, quantity) ==
    /\ pc[p] = "idle"
    /\ Len(inventory_transactions) + Cardinality(Unlogged) < MaxTxns
    /\ IF ~ValidId(item_id)
       THEN /\ response' = Internal("adjust_inventory", "InvalidId")
            /\ UNCHANGED <<pc, loc>>
       ELSE /\ Suspend(p, "adjust_stock",
                       [op |-> "adjust_inventory", item_id |-> item_id,
                        adjustment_type |-> adjustment_type, quantity |-> quantity])
            /\ UNCHANGED response
    /\ emitted' = <<>>
    /\ UNCHANGED <<tables, orders, nextOrderId, kot_batches, menu_items, inventory,
                   inventory_transactions, issued, employees>>

\* await db.inventory.update_one({"_id": ...}, {"$inc": {"stock": ...}})
adjust_inventory_update_one(p) ==
    /\ pc[p] = "adjust_stock"
    /\ inventory' = IncStock(inventory, loc[p].item_id,
                             loc[p].quantity * multiplier(loc[p].adjustment_type))
    /\ Suspend(p, "log_adjustment", loc[p])
    /\ emitted' = <<>>
    /\ UNCHANGED <<tables, orders, nextOrderId, kot_batches, menu_items,
                   inventory_transactions, response, issued, employees>>

\* await db.inventory_transactions.insert_one({...})
adjust_inventory_insert_one(p) ==
    /\ pc[p] = "log_adjustment"
    /\ inventory_transactions' =
         insert_txn(inventory_transactions,
                    AdjustTxn(loc[p].item_id, loc[p].adjustment_type, loc[p].quantity))
    /\ Suspend(p, "find_adjusted", loc[p])
    /\ emitted' = <<>>
    /\ UNCHANGED <<tables, orders, nextOrderId, kot_batches, menu_items, inventory,
                   response, issued, employees>>

\* item = await db.inventory.find_one({"_id": ...}); return serialize_doc(item)
adjust_inventory_find_one(p) ==
    /\ pc[p] = "find_adjusted"
    /\ response' = Ok("adjust_inventory",
                      IF loc[p].item_id \in DOMAIN inventory
                      THEN WithId(inventory[loc[p].item_id], loc[p].item_id) ELSE NULL)
    /\ Finish(p)
    /\ emitted' = <<>>
    /\ UNCHANGED <<tables, orders, nextOrderId, kot_batches, menu_items, inventory,
                   inventory_transactions, issued, employees>>

----------------------------------------------------------------------------
(* SpecConc: two requests in flight: GET /tables, POST /orders,            *)
(* DELETE /orders/{id}                                                     *)

ConcOrderInputs ==
    {Order("takeout", NULL, NULL, <<>>),
     Order("dine-in", 1, NULL, <<OrderItem("m1", 1)>>)}

\* the ids DELETE names: no ObjectId, and the first order's
ConcOrderIdInputs == {BadOrderId, 1}

NextConc ==
    \E p \in Requests :
       \/ get_tables_find(p)
       \/ get_tables_insert_many(p)
       \/ get_tables_find_again(p)
       \/ \E o \in ConcOrderInputs : create_order_begin(p, o)
       \/ create_order_find_last_order(p)
       \/ create_order_insert_order(p)
       \/ create_order_update_table(p)
       \/ create_order_find_menu_item(p)
       \/ create_order_inc_stock(p)
       \/ create_order_insert_transaction(p)
       \/ create_order_emit(p)
       \/ \E id \in ConcOrderIdInputs : delete_order_begin(p, id)
       \/ delete_order_find_order(p)
       \/ delete_order_free_table(p)
       \/ delete_order_delete_one(p)
       \/ delete_order_emit(p)

SpecConc == Init /\ [][NextConc]_vars

\* request p is a takeout creation without a token that has read the last
\* order and not yet inserted its own
HasReadToken(p) ==
    /\ pc[p] = "insert_order"
    /\ loc[p].order.orderType = "takeout"
    /\ loc[p].order.tokenNumber = NULL

\* C11: when two takeout creations without tokens have both read the same
\* highest token before either has inserted, the order the first one inserts
\* carries the token the second one holds and then inserts as well: the two
\* stored orders have the same tokenNumber.
C11_InterleavedCreationsShareToken ==
    [][\A p \in Requests :
         (HasReadToken(p) /\ create_order_insert_order(p))
         => /\ orders'[nextOrderId].tokenNumber = loc[p].order_dict.tokenNumber
            /\ orders'[nextOrderId].tokenNumber # NULL
            /\ \A q \in Requests \ {p} :
                 (HasReadToken(q) /\ loc[q].last_order = loc[p].last_order)
                 => /\ loc[q].order_dict.tokenNumber = orders'[nextOrderId].tokenNumber
                    /\ HasReadToken(q)']_vars

\* two takeout orders are stored with the same generated token
C11_Witness ==
    /\ DOMAIN orders = {1, 2}
    /\ orders[1].orderType = "takeout" /\ orders[2].orderType = "takeout"
    /\ orders[1].tokenNumber = orders[2].tokenNumber
    /\ issued = <<[token |-> 1, generated |-> TRUE], [token |-> 1, generated |-> TRUE]>>

\* C17: however concurrent GET /tables requests on an empty collection
\* interleave, once none is in flight the collection holds exactly 20
\* tables, no two with the same tableNumber.
C17_TablesSeededOnce ==
    (tables # <<>> /\ \A p \in Requests : pc[p] \notin {"insert_many", "find_again"})
    => /\ Len(tables) = NumDefaultTables
       /\ \A i, j \in DOMAIN tables :
            tables[i].tableNumber = tables[j].tableNumber => i = j

\* C18: the table write of a dine-in creation checks no availability: it
\* leaves the table of the order's number occupied with currentOrder = the
\* new order, whatever the table held; an order B the table held before
\* (written by a creation that ran its table write earlier) stays stored,
\* still names the table, and is referenced by no table.
C18_TableWriteOverwrites ==
    [][\A p \in Requests :
         create_order_update_table(p)
         => LET T == MatchTable(tables, loc[p].order.tableNumber)
            IN  T # 0
                => /\ tables'[T].status = "occupied"
                   /\ tables'[T].currentOrder = loc[p].oid
                   /\ orders' = orders
                   /\ \A B \in DOMAIN orders \ {loc[p].oid} :
                        tables[T].currentOrder = B
                        => /\ B \in DOMAIN orders'
                           /\ orders'[B].orderType = "dine-in"
                           /\ orders'[B].tableNumber = loc[p].order.tableNumber
                           /\ \A k \in DOMAIN tables' :
                                tables'[k].currentOrder # B]_vars

\* two dine-in creations on table 1 have both answered; both orders are
\* stored, and the table holds the one inserted first, whose table write
\* ran last; the other is referenced by no table
C18_Witness ==
    /\ \A p \in Requests : pc[p] = "idle"
    /\ DOMAIN orders = {1, 2}
    /\ orders[1].orderType = "dine-in" /\ orders[1].tableNumber = 1
    /\ orders[2].orderType = "dine-in" /\ orders[2].tableNumber = 1
    /\ tables # <<>>
    /\ tables[1].tableNumber = 1
    /\ tables[1].status = "occupied" /\ tables[1].currentOrder = 1
    /\ \A k \in DOMAIN tables : tables[k].currentOrder # 2

\* the deduct transactions logged for order oid
LoggedFor(oid) ==
    {k \in DOMAIN inventory_transactions :
        /\ inventory_transactions[k].type = "deduct"
        /\ inventory_transactions[k].orderId = oid}

\* what a creation that answers has emitted and done: one order_updated to
\* room 'orders' carrying the answered order with its id and token, after
\* the insert, the table write and every deduction of the request
EmitsAfterWrites(p) ==
    /\ emitted' = <<[event |-> "order_updated", room |-> "orders",
                     payload |-> response'.body]>>
    /\ response'.code = 200
    /\ response'.body = WithId(loc[p].order_dict, loc[p].oid)
    /\ response'.body.tokenNumber = loc[p].order_dict.tokenNumber
    /\ loc[p].oid \in 1..(nextOrderId - 1)
    /\ UpdatesTable(loc[p].order) => loc[p].tabled
    /\ Cardinality(LoggedFor(loc[p].oid))
         = Cardinality(IngredientEntries(loc[p].order))

\* the step is the last one of creation p: it leaves the await of the emit
EmitStep(p) == pc[p] = "emit" /\ pc'[p] # "emit"

\* an order_updated is emitted by the last step of a creation only
OnlyEmitStepEmits ==
    (\E k \in DOMAIN emitted' : emitted'[k].event = "order_updated")
    => \E p \in Requests : EmitStep(p)

\* C16: every creation that answers emits exactly one order_updated to room
\* 'orders' whose payload is the created order, after its insert, table
\* write and deductions; and no order_updated is ever emitted for an order
\* that is not in the store.
C16_EventOnlyForStoredOrder ==
    [][/\ \A p \in Requests : EmitStep(p) => EmitsAfterWrites(p)
       /\ OnlyEmitStepEmits
       /\ \A k \in DOMAIN emitted' :
            emitted'[k].event = "order_updated"
            => emitted'[k].payload.id \in DOMAIN orders']_vars

\* C16, amended: every creation that answers emits exactly one order_updated
\* to room 'orders' whose payload is the created order, after its insert,
\* table write and deductions; the order of the event has been inserted, and
\* is in the store unless a DELETE removed it since.
C16_EventAfterOwnWrites ==
    [][/\ \A p \in Requests : EmitStep(p) => EmitsAfterWrites(p)
       /\ OnlyEmitStepEmits
       /\ \A k \in DOMAIN emitted' :
            emitted'[k].event = "order_updated"
            => emitted'[k].payload.id \in 1..(nextOrderId' - 1)]_vars

\* a creation has answered and emitted order_updated for its order after a
\* DELETE in flight removed that order
C16_Witness ==
    /\ response.op = "create_order" /\ response.code = 200
    /\ emitted # <<>>
    /\ emitted[1].event = "order_updated"
    /\ emitted[1].payload = response.body
    /\ response.body.id \notin DOMAIN orders

----------------------------------------------------------------------------
(* SpecLedger: the operations on orders, inventory, KOTs and tables, one   *)
(* request at a time, and the transaction log they leave                   *)

LedgerOrderInputs == {Order("takeout", NULL, 5, <<OrderItem("m1", 1)>>)}

LedgerKotInputs == {KOTBatch(1, "dine-in", 1, NULL, <<OrderItem("m1", 1)>>, "pending")}

LedgerTableInputs == {DefaultTable(1)}

NextLedger ==
    \/ \E o \in LedgerOrderInputs : create_order(o)
    \/ update_order(1, StatusUpdate(1, "completed"))
    \/ delete_order(1)
    \/ create_inventory_item(0, 1)
    \/ update_inventory_item("i1", 2, 1)
    \/ adjust_inventory("i1", "wastage", 1)
    \/ get_inventory
    \/ get_inventory_transactions("i1")
    \/ \E k \in LedgerKotInputs : create_kot(k)
    \/ \E k \in LedgerKotInputs : update_kot(1, k)
    \/ get_tables
    \/ \E t \in LedgerTableInputs : update_table(1, t)

SpecLedger == Init /\ [][NextLedger]_vars

\* C22: the transaction log is append-only: no operation on orders,
\* inventory, KOTs or tables modifies or removes an entry, so the log after
\* a step extends the log before it.
C22_TransactionLogAppendOnly ==
    [][/\ Len(inventory_transactions') >= Len(inventory_transactions)
       /\ SubSeq(inventory_transactions', 1, Len(inventory_transactions))
            = inventory_transactions]_vars

\* the log holds a deduction followed by an adjustment after the order that
\* caused the deduction was deleted and the item was overwritten by a PUT
C22_Witness ==
    /\ Len(inventory_transactions) >= 2
    /\ inventory_transactions[1].type = "deduct"
    /\ inventory_transactions[1].orderId = 1
    /\ inventory_transactions[2].type = "wastage"
    /\ 1 \notin DOMAIN orders
    /\ nextOrderId >= 2
    /\ inventory["i1"].stock = 2
    /\ response.op = "get_inventory_transactions"
    /\ Len(response.body) = 2

----------------------------------------------------------------------------
(* SpecRecon: two requests in flight: POST /orders and                     *)
(* POST /inventory/{id}/adjust                                             *)

ReconIdInputs == {"i1", BadId}

NextRecon ==
    \E p \in Requests :
       \/ \E o \in ConcOrderInputs : create_order_begin(p, o)
       \/ create_order_find_last_order(p)
       \/ create_order_insert_order(p)
       \/ create_order_update_table(p)
       \/ create_order_find_menu_item(p)
       \/ create_order_inc_stock(p)
       \/ create_order_insert_transaction(p)
       \/ create_order_emit(p)
       \/ \E id \in ReconIdInputs, t \in StockAdjustInputs :
             adjust_inventory_begin(p, id, t, 1)
       \/ adjust_inventory_update_one(p)
       \/ adjust_inventory_insert_one(p)
       \/ adjust_inventory_find_one(p)

SpecRecon == Init /\ [][NextRecon]_vars

\* the sum of the quantities of the logged transactions of item i whose
\* type is in types
RECURSIVE LedgerSum(_, _, _)
LedgerSum(txns, i, types) ==
    IF txns = <<>> THEN 0
    ELSE (IF Head(txns).inventoryId = i /\ Head(txns).type \in types
          THEN Head(txns).quantity ELSE 0) + LedgerSum(Tail(txns), i, types)

\* the stock of item i is its stock at creation plus its refills and
\* adjustments minus its wastages and deductions
Reconciled(i) ==
    inventory[i].stock
      = InitInventory[i].stock
        + LedgerSum(inventory_transactions, i, {"refill", "adjustment"})
        - LedgerSum(inventory_transactions, i, {"wastage", "deduct"})

\* no handler is in flight
Quiescent == \A p \in Requests : pc[p] = "idle"

\* C23: whenever no handler is in flight, after any order creations and
\* refill / wastage / adjustment requests, every inventory item's stock is
\* its stock at creation plus the quantities of its refill and adjustment
\* transactions minus those of its wastage and deduct transactions; and the
\* stock write of an adjustment that starts from a reconciled item leaves it
\* unreconciled until the transaction is logged.
C23_StockReconcilesAtQuiescence ==
    [][/\ Quiescent' => \A i \in DOMAIN inventory' : Reconciled(i)'
       /\ \A p \in Requests :
            (/\ adjust_inventory_update_one(p)
             /\ loc[p].item_id \in DOMAIN inventory
             /\ Reconciled(loc[p].item_id))
            => /\ ~Reconciled(loc[p].item_id)'
               /\ ~Quiescent']_vars

\* a creation and a wastage have both answered: i1 went from 1 to -2, and
\* the log holds the deduction of 2 and the wastage of 1
C23_Witness ==
    /\ Quiescent
    /\ Len(inventory_transactions) = 2
    /\ \E k \in 1..2 : inventory_transactions[k].type = "deduct"
    /\ \E k \in 1..2 : inventory_transactions[k].type = "wastage"
    /\ inventory["i1"].stock = 1 - 3
    /\ response.code = 200

----------------------------------------------------------------------------
(* KOTs and the orders they name *)

TicketOrderInputs == {Order("dine-in", 1, NULL, <<OrderItem("m3", 1)>>)}

TicketStatusInputs == {"", "pending", "completed"}

NextTickets ==
    \/ \E o \in TicketOrderInputs : create_order(o)
    \/ \E k \in KotInputs : create_kot(k)
    \/ \E id \in OrderIdInputs : delete_order(id)
    \/ \E st \in TicketStatusInputs : get_kot_batches(st)

SpecTickets == Init /\ [][NextTickets]_vars

\* the stored KOTs whose order is not in the store
Orphans == {k \in DOMAIN kot_batches : kot_batches[k].orderId \notin DOMAIN orders}

\* a reply of GET /kot that holds a KOT of the status of the stored KOT k
\* holds k
OrphanListed(k, body) ==
    (\E j \in DOMAIN body : body[j].status = kot_batches[k].status)
    => \E j \in DOMAIN body : body[j].id = k

\* C24: KOTs are not tied to the existence of their order: POST /kot stores
\* the KOT and emits kot_updated whether or not an order with the given
\* orderId is stored, DELETE /orders/{id} removes no KOT, and GET /kot
\* returns the KOTs whose order is absent like any other.
C24_KotIndependentOfOrder ==
    [][/\ Len(kot_batches') > Len(kot_batches)
          => /\ Len(emitted') = 1
             /\ emitted'[1].event = "kot_updated"
             /\ emitted'[1].payload.orderId = kot_batches'[Len(kot_batches')].orderId
       /\ DOMAIN orders' # DOMAIN orders => kot_batches' = kot_batches
       /\ response'.op = "get_kot_batches"
          => \A k \in Orphans : OrphanListed(k, response'.body)]_vars

\* the same with the order id of POST /kot restricted to well-formed ids
C24_KotIndependentOfOrder_WellFormed ==
    [][/\ (Len(kot_batches') > Len(kot_batches)
           /\ ValidOrderId(kot_batches'[Len(kot_batches')].orderId))
          => /\ Len(emitted') = 1
             /\ emitted'[1].event = "kot_updated"
             /\ emitted'[1].payload.orderId = kot_batches'[Len(kot_batches')].orderId
       /\ DOMAIN orders' # DOMAIN orders => kot_batches' = kot_batches
       /\ response'.op = "get_kot_batches"
          => \A k \in Orphans : OrphanListed(k, response'.body)]_vars

\* GET /kot returned a KOT whose order was deleted
C24_OrphanReturned ==
    /\ response.op = "get_kot_batches" /\ response.code = 200
    /\ nextOrderId > 1 /\ 1 \notin DOMAIN orders
    /\ \E j \in DOMAIN response.body : response.body[j].orderId = 1

----------------------------------------------------------------------------
(* Settling an order and its table *)

ReleaseOrderInputs == {Order("dine-in", 1, NULL, <<OrderItem("m1", 1)>>)}

\* the body of a PUT that settles an order: the stored order with the new
\* status and payment status (a fresh dine-in order when the id is not stored)
SettleUpdate(id, status, paymentStatus) ==
    [(IF id \in DOMAIN orders THEN orders[id] ELSE Order("dine-in", 1, NULL, <<>>))
        EXCEPT !.status = status, !.paymentStatus = paymentStatus]

SettleInputs == {<<"completed", "unpaid">>, <<"cancelled", "unpaid">>, <<"pending", "paid">>}

ReleaseTableInputs ==
    {DefaultTable(1), [DefaultTable(1) EXCEPT !.status = "reserved"]}

NextRelease ==
    \/ get_tables
    \/ \E o \in ReleaseOrderInputs : create_order(o)
    \/ \E id \in OrderIdInputs, st \in SettleInputs :
          update_order(id, SettleUpdate(id, st[1], st[2]))
    \/ \E id \in OrderIdInputs : delete_order(id)
    \/ \E t \in ReleaseTableInputs : update_table(1, t)

SpecRelease == Init /\ [][NextRelease]_vars

\* table t is held by the stored dine-in order id
HeldBy(t, id) ==
    /\ id \in DOMAIN orders /\ orders[id].orderType = "dine-in"
    /\ tables[t].tableNumber = orders[id].tableNumber
    /\ tables[t].status = "occupied" /\ tables[t].currentOrder = id

\* C25: PUT /orders/{id} modifies no table and no inventory; the table of
\* a dine-in order that is updated to completed, to cancelled or to paid
\* keeps its status and its currentOrder pointing at that order; a table is
\* released only by DELETE /orders/{id} or by PUT /tables/{id}.
C25_UpdateOrderKeepsTable ==
    [][/\ response'.op = "update_order"
          => /\ tables' = tables
             /\ inventory' = inventory
             /\ inventory_transactions' = inventory_transactions
       /\ \A t \in DOMAIN tables, id \in DOMAIN orders :
             (/\ response'.op = "update_order" /\ HeldBy(t, id)
              /\ \/ orders'[id].status \in {"completed", "cancelled"}
                 \/ orders'[id].paymentStatus = "paid")
             => /\ tables'[t].status = "occupied"
                /\ tables'[t].currentOrder = id
       /\ \A t \in DOMAIN tables :
             (/\ tables[t].status = "occupied"
              /\ \/ tables'[t].status # "occupied"
                 \/ tables'[t].currentOrder = NULL)
             => response'.op \in {"delete_order", "update_table"}]_vars

\* order 1 was completed and table 1 is still occupied by it
C25_Witness ==
    /\ response.op = "update_order" /\ response.code = 200
    /\ 1 \in DOMAIN orders /\ orders[1].status = "completed"
    /\ tables # <<>> /\ tables[1].status = "occupied" /\ tables[1].currentOrder = 1
    /\ inventory_transactions # <<>>

----------------------------------------------------------------------------
(* Events and the handlers that publish them *)

EventKotInputs ==
    {KOTBatch(1, "dine-in", 1, NULL, <<OrderItem("m1", 1)>>, st) :
        st \in {"pending", "completed"}}

NextEvents ==
    \/ get_tables
    \/ \E t \in ReleaseTableInputs : update_table(1, t)
    \/ \E o \in ReleaseOrderInputs : create_order(o)
    \/ \E id \in OrderIdInputs : update_order(id, SettleUpdate(id, "completed", "paid"))
    \/ \E id \in OrderIdInputs : delete_order(id)
    \/ \E k \in EventKotInputs : create_kot(k)
    \/ \E k \in EventKotInputs : update_kot(1, k)

SpecEvents == Init /\ [][NextEvents]_vars

\* the names of the events in a sequence of events
EventNames(events) == {events[i].event : i \in DOMAIN events}

\* C26: table_updated is emitted only by PUT /tables/{id} and order_updated
\* only by POST /orders and PUT /orders/{id}: the table change made by
\* create_order and delete_order is not published as table_updated, nor the
\* order change made by create_kot as order_updated; kot_updated goes to
\* room kitchen only, the other three events to room orders only.
C26_EventsOfPrimaryEntity ==
    [][/\ "table_updated" \in EventNames(emitted') => response'.op = "update_table"
       /\ "order_updated" \in EventNames(emitted')
          => response'.op \in {"create_order", "update_order"}
       /\ (response'.op \in {"create_order", "delete_order"} /\ tables' # tables)
          => "table_updated" \notin EventNames(emitted')
       /\ (response'.op = "create_kot" /\ orders' # orders)
          => EventNames(emitted') = {"kot_updated"}
       /\ \A i \in DOMAIN emitted' :
             /\ emitted'[i].event
                   \in {"kot_updated", "order_updated", "order_deleted", "table_updated"}
             /\ emitted'[i].room
                   = IF emitted'[i].event = "kot_updated" THEN "kitchen" ELSE "orders"]_vars

\* a KOT was created for order 1, which holds table 1: the order was marked
\* and only kot_updated went out, to the kitchen
C26_Witness ==
    /\ response.op = "create_kot" /\ response.code = 200
    /\ 1 \in DOMAIN orders /\ orders[1].kotSent /\ orders[1].status = "preparing"
    /\ tables # <<>> /\ tables[1].status = "occupied" /\ tables[1].currentOrder = 1
    /\ Len(emitted) = 1
    /\ emitted[1].event = "kot_updated" /\ emitted[1].room = "kitchen"

----------------------------------------------------------------------------
(* Takeout tokens given by the caller *)

\* GET /takeout/next-token
get_next_token ==
    /\ LET nt == NextToken(orders)
       IN  response' = IF nt.ok THEN Ok("get_next_token", [nextToken |-> nt.token])
                       ELSE Internal("get_next_token", "TypeError")
    /\ emitted' = <<>>
    /\ UNCHANGED <<tables, orders, nextOrderId, kot_batches, menu_items, inventory,
                   inventory_transactions, issued, employees, pc, loc>>

TokenOrderInputs ==
    {Order("takeout", NULL, tok, <<>>) : tok \in {NULL, 0, 2, 5}}
    \cup {Order("dine-in", 1, 9, <<>>)}

NextTokens ==
    \/ \E o \in TokenOrderInputs : create_order(o)
    \/ \E id \in OrderIdInputs : delete_order(id)
    \/ get_next_token

SpecTokens == Init /\ [][NextTokens]_vars

\* the stored takeout orders
Takeouts(ords) == {i \in DOMAIN ords : ords[i].orderType = "takeout"}

\* the largest token among the stored takeout orders, 0 when there is none
LargestToken(ords) ==
    LET toks == {ords[i].tokenNumber : i \in Takeouts(ords)} \cup {0}
    IN  CHOOSE t \in toks : \A u \in toks : u <= t

\* C27: a takeout order created with a non-zero tokenNumber is stored with
\* exactly that token, whether or not a stored takeout order carries it
\* already; a tokenNumber of 0 is treated as not supplied; the token the
\* server assigns, and the one GET /takeout/next-token announces, is one
\* more than the largest token among the stored takeout orders, the
\* caller-supplied ones included.
C27_SuppliedTokenStoredAsGiven ==
    [][/\ \A o \in TokenOrderInputs :
             (create_order(o) /\ o.orderType = "takeout")
             => /\ response'.code = 200
                /\ nextOrderId \in DOMAIN orders'
                /\ orders'[nextOrderId].tokenNumber
                      = IF o.tokenNumber \in {NULL, 0}
                        THEN LargestToken(orders) + 1
                        ELSE o.tokenNumber
       /\ response'.op = "get_next_token"
          => /\ response'.code = 200
             /\ response'.body.nextToken = LargestToken(orders) + 1]_vars

\* two stored takeout orders carry the caller's token 5, the second created
\* when the first was stored, and the next token announced is 6
C27_Witness ==
    /\ response.op = "get_next_token" /\ response.code = 200
    /\ response.body.nextToken = 6
    /\ DOMAIN orders = {1, 2}
    /\ orders[1].tokenNumber = 5 /\ orders[2].tokenNumber = 5
    /\ orders[1].orderType = "takeout" /\ orders[2].orderType = "takeout"
    /\ issued = <<[token |-> 5, generated |-> FALSE], [token |-> 5, generated |-> FALSE]>>

====
